---- MODULE Spec2Model ----
(***************************************************************************)
(* The command layer of src-tauri/src/media.rs: a registry of playback    *)
(* sessions behind one mutex, and the commands that drive a session.      *)
(* The playback engine the commands call (mod internal, MediaPlayback) is *)
(* modelled from its specification; everything else is translated from    *)
(* media.rs.                                                               *)
(***************************************************************************)
EXTENDS Integers, Sequences, FiniteSets, TLC

VARIABLES
    next_id,    \* PlaybackRegistry.next_id
    table,      \* PlaybackRegistry.table: id -> MediaPlayback
    pc,         \* per caller: the command body it is about to enter, or Idle
    last,       \* the last answer of a command: the caller, the function that
                \* sent it, the id it was given (-1: none), the terminal event
                \* and the return value
    returned,   \* history: the ids open_media has sent in Opened
    closed      \* history: the ids close_media has answered with Done

vars == <<next_id, table, pc, last, returned, closed>>

(***************************************************************************)
(* Bounds of the model.                                                    *)
(***************************************************************************)
NumCallers == 2     \* threads invoking commands
MaxOpens == 2       \* successful open_media calls explored
MaxPos == 2         \* largest position / until argument on the file "tone"
MaxClipPos == 6     \* largest position / until argument on the file "clip"
MaxStep == 2        \* largest step argument

Callers == 1..NumCallers
Ids == 0..MaxOpens
Steps == 0..MaxStep
Dims == {0, 2}
Heights == {0, 1}

(***************************************************************************)
(* The containers behind the paths "tone" and "clip"; no other path can   *)
(* be opened.  Stream i of a file is Streams(file)[i + 1].  A video unit  *)
(* is a frame (position, keyframe flag); an audio unit is a block of      *)
(* samples starting at its position.                                      *)
(***************************************************************************)
VFrame(p, k) == [position |-> p, key |-> k, samples |-> <<>>]
ABlock(p, s) == [position |-> p, key |-> TRUE, samples |-> s]

Tone == <<
    [kind |-> "video", size |-> <<4, 2>>, units |-> <<VFrame(0, TRUE)>>],
    [kind |-> "audio", size |-> <<0, 0>>, units |-> <<ABlock(0, <<0, 0>>)>>]
>>

Clip == <<
    [kind |-> "video", size |-> <<4, 2>>,
     units |-> <<VFrame(0, TRUE), VFrame(2, FALSE), VFrame(4, TRUE), VFrame(6, FALSE)>>],
    [kind |-> "video", size |-> <<2, 2>>,
     units |-> <<VFrame(0, TRUE), VFrame(5, FALSE)>>],
    [kind |-> "audio", size |-> <<0, 0>>,
     units |-> <<ABlock(0, <<0, 0>>), ABlock(2, <<0, 1>>), ABlock(4, <<1, 1>>)>>],
    [kind |-> "audio", size |-> <<0, 0>>,
     units |-> <<ABlock(-3, <<1, 1, 0>>), ABlock(0, <<0, 1>>), ABlock(2, <<1>>)>>],
    [kind |-> "subtitle", size |-> <<0, 0>>, units |-> <<>>],
    [kind |-> "video", size |-> <<2, 2>>, units |-> <<>>],
    [kind |-> "audio", size |-> <<0, 0>>, units |-> <<>>]
>>

Streams(file) == IF file = "clip" THEN Clip ELSE Tone
StreamIdx(file) == 0..(Len(Streams(file)) - 1)
StreamOf(file, i) == Streams(file)[i + 1]
UnitsOf(file, i) == StreamOf(file, i).units

(***************************************************************************)
(* Engine state.  A decoded unit is named by the stream it was decoded    *)
(* from and its place in that stream; a context keeps the place of the    *)
(* last unit handed to the decoder (cursor) and its current cache slot.   *)
(* The field replaced is history: the context took the place of a context *)
(* on another stream.                                                     *)
(***************************************************************************)
NoUnit == [some |-> FALSE, stream |-> -1, k |-> 0, scaled |-> <<0, 0>>]
Unit(i, k) == [some |-> TRUE, stream |-> i, k |-> k, scaled |-> <<0, 0>>]

NoContext ==
    [open |-> FALSE, index |-> -1, cursor |-> 0, cur |-> NoUnit, out |-> <<0, 0>>,
     replaced |-> FALSE]
NewContext(file, i, old) ==
    [open |-> TRUE, index |-> i, cursor |-> 0, cur |-> NoUnit, out |-> StreamOf(file, i).size,
     replaced |-> old.open /\ old.index # i]

NewPlayback(file) == [file |-> file, audio |-> NoContext, video |-> NoContext]
UnitPosition(file, u) == UnitsOf(file, u.stream)[u.k].position
UnitSamples(file, u) == UnitsOf(file, u.stream)[u.k].samples

Ok(p) == [ok |-> TRUE, more |-> TRUE, p |-> p]
Eof(p) == [ok |-> TRUE, more |-> FALSE, p |-> p]
Err(p) == [ok |-> FALSE, more |-> FALSE, p |-> p]

\* MediaPlayback::from_file
from_file(path) ==
    IF path \in {"tone", "clip"} THEN Ok(NewPlayback(path)) ELSE Err(NewPlayback(path))

\* The stream an open_* call selects: the given index, or the first of the kind.
OfKind(file, kind) == {i \in StreamIdx(file) : StreamOf(file, i).kind = kind}
Min(S) == CHOOSE m \in S : \A n \in S : m <= n
Max(S) == CHOOSE m \in S : \A n \in S : m >= n
SelectStream(file, kind, index) ==
    IF index < 0
    THEN (IF OfKind(file, kind) = {} THEN -1 ELSE Min(OfKind(file, kind)))
    ELSE (IF index \in OfKind(file, kind) THEN index ELSE -1)

\* MediaPlayback::open_video / open_audio: a fresh context replaces the old one.
OpenVideoStale(p, index) ==
    LET i == SelectStream(p.file, "video", index)
    IN  IF i < 0 THEN Err(p)
        ELSE Ok([p EXCEPT !.video = [NewContext(p.file, i, p.video) EXCEPT !.cur = p.video.cur]])

OpenVideo(p, index) ==
    LET i == SelectStream(p.file, "video", index)
    IN  IF i < 0 THEN Err(p) ELSE Ok([p EXCEPT !.video = NewContext(p.file, i, p.video)])

OpenAudio(p, index) ==
    LET i == SelectStream(p.file, "audio", index)
    IN  IF i < 0 THEN Err(p) ELSE Ok([p EXCEPT !.audio = NewContext(p.file, i, p.audio)])

\* Stream Context advance(): decode the next unit into the cache slot.
\* more = FALSE is clean end-of-stream; the cache slot is then left as it was.
Advance(file, c) ==
    IF c.cursor < Len(UnitsOf(file, c.index))
    THEN [more |-> TRUE,
          c |-> [c EXCEPT !.cursor = c.cursor + 1, !.cur = Unit(c.index, c.cursor + 1)]]
    ELSE [more |-> FALSE, c |-> c]

\* MediaPlayback::poll_next_audio_frame
PollNextAudioFrame(p) ==
    IF ~p.audio.open THEN Err(p)
    ELSE LET r == Advance(p.file, p.audio)
         IN  IF r.more THEN Ok([p EXCEPT !.audio = r.c]) ELSE Eof(p)

\* MediaPlayback::advance_to_next_audio_frame: Ok only with a unit in the slot.
AdvanceToNextAudioFrame(p) ==
    LET r == PollNextAudioFrame(p)
    IN  IF r.ok /\ r.more THEN r ELSE Err(p)

AdvanceToNextVideoFrameQuiet(p) ==
    IF ~p.video.open THEN Err(p)
    ELSE LET r == Advance(p.file, p.video)
         IN  IF r.more THEN Ok([p EXCEPT !.video = r.c]) ELSE Ok(p)

\* MediaPlayback::advance_to_next_video_frame
AdvanceToNextVideoFrame(p) ==
    IF ~p.video.open THEN Err(p)
    ELSE LET r == Advance(p.file, p.video)
         IN  IF r.more THEN Ok([p EXCEPT !.video = r.c]) ELSE Err(p)

\* The adapter's timestamp seek: the last seek point at or before the target
\* (the first one when the target lies before them all), as a cursor value.
SeekPoint(file, i, position) ==
    LET pts == {k \in 1..Len(UnitsOf(file, i)) : UnitsOf(file, i)[k].key}
        before == {k \in pts : UnitsOf(file, i)[k].position <= position}
    IN  IF pts = {} THEN 0
        ELSE (IF before = {} THEN Min(pts) ELSE Max(before)) - 1

\* MediaPlayback::seek_audio: coarse seek, cache cleared.
SeekAudio(p, position) ==
    IF ~p.audio.open \/ position < 0 THEN Err(p)
    ELSE Ok([p EXCEPT !.audio.cursor = SeekPoint(p.file, p.audio.index, position),
                      !.audio.cur = NoUnit])

\* The decode loop of the precise seek: advance until a frame at or after
\* the target is in the slot; end-of-stream before that is an error.
RECURSIVE DecodeUntil(_, _, _)
DecodeUntil(file, c, position) ==
    LET r == Advance(file, c)
    IN  IF ~r.more THEN [ok |-> FALSE, c |-> r.c]
        ELSE IF UnitPosition(file, r.c.cur) >= position THEN [ok |-> TRUE, c |-> r.c]
        ELSE DecodeUntil(file, r.c, position)

SeekVideoNoRewind(p, position) ==
    IF ~p.video.open THEN Err(p)
    ELSE LET r == DecodeUntil(p.file, [p.video EXCEPT !.cur = NoUnit], position)
         IN  IF r.ok THEN Ok([p EXCEPT !.video = r.c]) ELSE Err([p EXCEPT !.video = r.c])

\* MediaPlayback::seek_video_precise
SeekVideoPrecise(p, position) ==
    IF ~p.video.open THEN Err(p)
    ELSE LET c0 == [p.video EXCEPT !.cursor = SeekPoint(p.file, p.video.index, position),
                                   !.cur = NoUnit]
             r == DecodeUntil(p.file, c0, position)
         IN  IF r.ok THEN Ok([p EXCEPT !.video = r.c]) ELSE Err([p EXCEPT !.video = r.c])

\* VideoContext::set_output_size: zero dimensions are refused.
SetOutputSize(p, w, h) ==
    IF ~p.video.open \/ w = 0 \/ h = 0 THEN Err(p)
    ELSE Ok([p EXCEPT !.video.out = <<w, h>>])

RenderOnce(p) ==
    IF ~p.video.open \/ ~p.video.cur.some THEN Err(p)
    ELSE IF p.video.cur.scaled # <<0, 0>> THEN Ok(p)
    ELSE Ok([p EXCEPT !.video.cur.scaled = p.video.out])

\* MediaPlayback::render_current_video_frame: scale the cached frame to the
\* output size, once per size; an empty slot is an error.
RenderCurrentVideoFrame(p) ==
    IF ~p.video.open \/ ~p.video.cur.some THEN Err(p)
    ELSE Ok([p EXCEPT !.video.cur.scaled = p.video.out])

(***************************************************************************)
(* Frame Transfer: the bytes of a binary response.  Integers are written   *)
(* as 8 little-endian bytes (two's complement for the signed position),    *)
(* the time as an IEEE 754 double, audio samples as IEEE 754 singles.      *)
(* Positions and samples of the model are small integers, so the bit       *)
(* patterns are computed exactly.                                          *)
(***************************************************************************)
RECURSIVE Log2(_)
Log2(v) == IF v < 2 THEN 0 ELSE 1 + Log2(v \div 2)

RECURSIVE LeBytes(_, _)
LeBytes(v, n) == IF n = 0 THEN <<>> ELSE <<v % 256>> \o LeBytes(v \div 256, n - 1)

I64ToLeBytesUnsigned(v) == LeBytes(IF v >= 0 THEN v ELSE -v, 8)

\* i64::to_le_bytes
I64ToLeBytes(v) ==
    IF v >= 0 THEN LeBytes(v, 8) ELSE [i \in 1..8 |-> 255 - LeBytes(-v - 1, 8)[i]]

\* u64::to_le_bytes
U64ToLeBytes(v) == LeBytes(v, 8)

\* f64::to_le_bytes of an integer value below 2^12 in magnitude.
F64ToLeBytes(v) ==
    IF v = 0 THEN LeBytes(0, 8)
    ELSE LET a == IF v < 0 THEN -v ELSE v
             e == Log2(a)
             exp == 1023 + e
             frac == (a - 2^e) * 2^(12 - e)
             sign == IF v < 0 THEN 128 ELSE 0
         IN  <<0, 0, 0, 0, 0, frac % 256, (exp % 16) * 16 + frac \div 256, sign + exp \div 16>>

\* The bytes in memory of an f32 holding a non-negative integer value.
F32ToLeBytes(x) ==
    IF x = 0 THEN LeBytes(0, 4)
    ELSE LeBytes((127 + Log2(x)) * 2^23 + (x - 2^Log2(x)) * 2^(23 - Log2(x)), 4)

\* to_byte_slice of send_current_video_frame: the pixels' bytes in order.
RECURSIVE to_byte_slice_rgba(_)
to_byte_slice_rgba(data) ==
    IF data = <<>> THEN <<>> ELSE Head(data) \o to_byte_slice_rgba(Tail(data))

\* to_byte_slice of send_current_audio_frame: the samples' bytes in order.
RECURSIVE to_byte_slice_f32(_)
to_byte_slice_f32(floats) ==
    IF floats = <<>> THEN <<>>
    ELSE F32ToLeBytes(Head(floats)) \o to_byte_slice_f32(Tail(floats))

\* Plane 0 of the scaled rendering of a cached frame: width * height RGBA
\* pixels, rows of width pixels.
ScaledPlane(file, u) ==
    [j \in 1..(u.scaled[1] * u.scaled[2]) |->
        <<(UnitPosition(file, u) + j) % 256, u.stream, j % 256, 255>>]

\* pos_timebase(): seconds per position unit.
pos_timebase(file, i) == 1

(***************************************************************************)
(* MediaEvent, and what a command hands back.  last.ret is the command's   *)
(* return value: "unit" for the commands returning (), "Err" / "Ok" for    *)
(* the two that return Result<Response, ()>.  Debug events are not kept.   *)
(***************************************************************************)
Done == [tag |-> "Done"]
NoStream == [tag |-> "NoStream"]
InvalidId == [tag |-> "InvalidId"]
RuntimeError(line) == [tag |-> "RuntimeError", line |-> line]
Opened(id) == [tag |-> "Opened", id |-> id]
Position(value) == [tag |-> "Position", value |-> value]
IntensityList(start, end, data) ==
    [tag |-> "IntensityList", start |-> start, end |-> end, data |-> data]
MediaStatusEvent(audio_index, video_index, streams) ==
    [tag |-> "MediaStatus", audio_index |-> audio_index, video_index |-> video_index,
     streams |-> streams]
AudioStatus(length) == [tag |-> "AudioStatus", length |-> length]
VideoStatus(length, out, size) ==
    [tag |-> "VideoStatus", length |-> length, out_width |-> out[1], out_height |-> out[2],
     width |-> size[1], height |-> size[2]]
VideoResponse(position, stride, length, stream, k, binary) ==
    [tag |-> "VideoResponse", position |-> position, stride |-> stride,
     length |-> length, stream |-> stream, k |-> k, binary |-> binary]
AudioResponse(position, length, data, stream, k, binary) ==
    [tag |-> "AudioResponse", position |-> position, length |-> length,
     data |-> data, stream |-> stream, k |-> k, binary |-> binary]
NoEvent == [tag |-> "None"]

Idle == [fn |-> "idle", id |-> -1]
Pending(fn, id) == [fn |-> fn, id |-> id]

Answer(t, fn, id, ev, ret) ==
    last' = [caller |-> t, fn |-> fn, id |-> id, ev |-> ev, ret |-> ret]
send(t, fn, id, ev) == Answer(t, fn, id, ev, "unit")
send_error(t, fn, id, line) == send(t, fn, id, RuntimeError(line))
send_invalid_id(t, fn, id) == send(t, fn, id, InvalidId)
send_done(t, fn, id) == send(t, fn, id, Done)

Put(id, p) == table' = [table EXCEPT ![id] = p]
Remove(id) == table' = [j \in DOMAIN table \ {id} |-> table[j]]
Return(t) == pc' = [pc EXCEPT ![t] = Idle]
Call(t, fn, id) == pc' = [pc EXCEPT ![t] = Pending(fn, id)]

\* ctx.length(): the stream's length in its native units.
Length(file, i) ==
    IF UnitsOf(file, i) = <<>> THEN 0
    ELSE UnitsOf(file, i)[Len(UnitsOf(file, i))].position + 1 - UnitsOf(file, i)[1].position

Init ==
    /\ next_id = 0
    /\ table = <<>>
    /\ pc = [t \in Callers |-> Idle]
    /\ last = [caller |-> 0, fn |-> "", id |-> -1, ev |-> NoEvent, ret |-> "unit"]
    /\ returned = {}
    /\ closed = {}

(***************************************************************************)
(* The commands.  Each takes the registry lock for its whole body, except  *)
(* the five that end by calling another command after releasing it.        *)
(***************************************************************************)
media_status_video(t, id) ==
    /\ pc[t] = Idle
    /\ IF id \notin DOMAIN table THEN send_invalid_id(t, "media_status", id)
       ELSE LET playback == table[id]
                audio_index == IF playback.audio.open THEN playback.audio.index ELSE -1
                video_index == IF playback.video.open THEN playback.video.index ELSE -1
            IN  send(t, "media_status", id,
                     MediaStatusEvent(audio_index, video_index, Len(Streams(playback.file))))
    /\ UNCHANGED <<next_id, table, pc, returned, closed>>

media_status(t, id) ==
    /\ pc[t] = Idle
    /\ IF id \notin DOMAIN table THEN send_invalid_id(t, "media_status", id)
       ELSE LET playback == table[id]
                audio_index == IF playback.audio.open THEN playback.audio.index ELSE -1
                video_index == -1
            IN  send(t, "media_status", id, MediaStatusEvent(audio_index, video_index, Len(Streams(playback.file))))
    /\ UNCHANGED <<next_id, table, pc, returned, closed>>

audio_status_nostream(t, id) ==
    /\ pc[t] = Idle
    /\ IF id \notin DOMAIN table \/ ~table[id].audio.open THEN send(t, "audio_status", id, NoStream)
       ELSE send(t, "audio_status", id, AudioStatus(Length(table[id].file, table[id].audio.index)))
    /\ UNCHANGED <<next_id, table, pc, returned, closed>>


audio_status(t, id) ==
    /\ pc[t] = Idle
    /\ IF id \notin DOMAIN table THEN send_invalid_id(t, "audio_status", id)
       ELSE IF ~table[id].audio.open THEN send(t, "audio_status", id, NoStream)
       ELSE send(t, "audio_status", id, AudioStatus(Length(table[id].file, table[id].audio.index)))
    /\ UNCHANGED <<next_id, table, pc, returned, closed>>

video_status(t, id) ==
    /\ pc[t] = Idle
    /\ IF id \notin DOMAIN table THEN send_invalid_id(t, "video_status", id)
       ELSE IF ~table[id].video.open THEN send(t, "video_status", id, NoStream)
       ELSE LET ctx == table[id].video
            IN  send(t, "video_status", id, VideoStatus(Length(table[id].file, ctx.index), ctx.out,
                                    StreamOf(table[id].file, ctx.index).size))
    /\ UNCHANGED <<next_id, table, pc, returned, closed>>

video_set_size(t, id, width, height) ==
    /\ pc[t] = Idle
    /\ IF id \notin DOMAIN table THEN send_invalid_id(t, "video_set_size", id) /\ UNCHANGED table
       ELSE IF ~table[id].video.open THEN send(t, "video_set_size", id, NoStream) /\ UNCHANGED table
       ELSE LET r == SetOutputSize(table[id], width, height)
            IN  /\ Put(id, r.p)
                /\ IF r.ok THEN send_done(t, "video_set_size", id) ELSE send_error(t, "video_set_size", id, 197)
    /\ UNCHANGED <<next_id, pc, returned, closed>>

close_media(t, id) ==
    /\ pc[t] = Idle
    /\ IF id \notin DOMAIN table
       THEN send_invalid_id(t, "close_media", id) /\ UNCHANGED <<table, closed>>
       ELSE Remove(id) /\ send_done(t, "close_media", id) /\ closed' = closed \cup {id}
    /\ UNCHANGED <<next_id, pc, returned>>

open_media_reuse(t, path) ==
    /\ pc[t] = Idle
    /\ next_id < MaxOpens
    /\ LET r == from_file(path)
       IN  IF ~r.ok
           THEN send_error(t, "open_media", -1, 225) /\ UNCHANGED <<next_id, table, returned>>
           ELSE LET id == Cardinality(DOMAIN table)
                IN  /\ next_id' = next_id + 1
                    /\ table' = (id :> r.p) @@ table
                    /\ send(t, "open_media", -1, Opened(id))
                    /\ returned' = returned \cup {id}
    /\ UNCHANGED <<pc, closed>>


open_media_burn(t, path) ==
    /\ pc[t] = Idle
    /\ next_id < MaxOpens
    /\ LET r == from_file(path)
           id == next_id
       IN  /\ next_id' = next_id + 1
           /\ IF ~r.ok
              THEN send_error(t, "open_media", -1, 225) /\ UNCHANGED <<table, returned>>
              ELSE /\ table' = (id :> r.p) @@ table
                   /\ send(t, "open_media", -1, Opened(id))
                   /\ returned' = returned \cup {id}
    /\ UNCHANGED <<pc, closed>>

open_media(t, path) ==
    /\ pc[t] = Idle
    /\ next_id < MaxOpens
    /\ LET r == from_file(path)
       IN  IF ~r.ok
           THEN send_error(t, "open_media", -1, 225) /\ UNCHANGED <<next_id, table, returned>>
           ELSE LET id == next_id
                IN  /\ next_id' = next_id + 1
                    /\ table' = (id :> r.p) @@ table
                    /\ send(t, "open_media", -1, Opened(id))
                    /\ returned' = returned \cup {id}
    /\ UNCHANGED <<pc, closed>>

open_video(t, id, video_id) ==
    /\ pc[t] = Idle
    /\ IF id \notin DOMAIN table THEN send_invalid_id(t, "open_video", id) /\ UNCHANGED table
       ELSE LET r == OpenVideo(table[id], video_id)
            IN  /\ Put(id, r.p)
                /\ IF r.ok THEN send_done(t, "open_video", id) ELSE send_error(t, "open_video", id, 251)
    /\ UNCHANGED <<next_id, pc, returned, closed>>

open_audio(t, id, audio_id) ==
    /\ pc[t] = Idle
    /\ IF id \notin DOMAIN table THEN send_invalid_id(t, "open_audio", id) /\ UNCHANGED table
       ELSE LET r == OpenAudio(table[id], audio_id)
            IN  /\ Put(id, r.p)
                /\ IF r.ok THEN send_done(t, "open_audio", id) ELSE send_error(t, "open_audio", id, 284)
    /\ UNCHANGED <<next_id, pc, returned, closed>>

seek_audio_wrong_context(t, id, position) ==
    /\ pc[t] = Idle
    /\ IF id \notin DOMAIN table THEN send_invalid_id(t, "seek_audio", id) /\ UNCHANGED table
       ELSE IF ~table[id].audio.open THEN send(t, "seek_audio", id, NoStream) /\ UNCHANGED table
       ELSE LET r == SeekVideoPrecise(table[id], position)
            IN  /\ Put(id, r.p)
                /\ IF r.ok THEN send_done(t, "seek_audio", id)
                   ELSE send_error(t, "seek_audio", id, 319)
    /\ UNCHANGED <<next_id, pc, returned, closed>>


seek_audio(t, id, position) ==
    /\ pc[t] = Idle
    /\ IF id \notin DOMAIN table THEN send_invalid_id(t, "seek_audio", id) /\ UNCHANGED table
       ELSE IF ~table[id].audio.open THEN send(t, "seek_audio", id, NoStream) /\ UNCHANGED table
       ELSE LET r == SeekAudio(table[id], position)
            IN  /\ Put(id, r.p)
                /\ IF r.ok THEN send_done(t, "seek_audio", id) ELSE send_error(t, "seek_audio", id, 319)
    /\ UNCHANGED <<next_id, pc, returned, closed>>

seek_video_ignore_error(t, id, position) ==
    /\ pc[t] = Idle
    /\ IF id \notin DOMAIN table THEN send_invalid_id(t, "seek_video", id) /\ UNCHANGED table
       ELSE IF ~table[id].video.open THEN send(t, "seek_video", id, NoStream) /\ UNCHANGED table
       ELSE LET r == SeekVideoPrecise(table[id], position)
            IN  Put(id, r.p) /\ send_done(t, "seek_video", id)
    /\ UNCHANGED <<next_id, pc, returned, closed>>


seek_video_drop(t, id, position) ==
    /\ pc[t] = Idle
    /\ IF id \notin DOMAIN table THEN send_invalid_id(t, "seek_video", id) /\ UNCHANGED table
       ELSE IF ~table[id].video.open THEN send(t, "seek_video", id, NoStream) /\ UNCHANGED table
       ELSE LET r == SeekVideoPrecise(table[id], position)
            IN  IF r.ok THEN Put(id, r.p) /\ send_done(t, "seek_video", id)
                ELSE Remove(id) /\ send_error(t, "seek_video", id, 504)
    /\ UNCHANGED <<next_id, pc, returned, closed>>


seek_video(t, id, position) ==
    /\ pc[t] = Idle
    /\ IF id \notin DOMAIN table THEN send_invalid_id(t, "seek_video", id) /\ UNCHANGED table
       ELSE IF ~table[id].video.open THEN send(t, "seek_video", id, NoStream) /\ UNCHANGED table
       ELSE LET r == SeekVideoPrecise(table[id], position)
            IN  /\ Put(id, r.p)
                /\ IF r.ok THEN send_done(t, "seek_video", id) ELSE send_error(t, "seek_video", id, 504)
    /\ UNCHANGED <<next_id, pc, returned, closed>>

(***************************************************************************)
(* The commands that release the lock and then call another command.  The  *)
(* *_body operators are the sections run under one lock acquisition; a     *)
(* caller enters the first one when it invokes the command and the next    *)
(* ones, through resume, when it gets the lock again.                      *)
(***************************************************************************)
move_to_next_video_frame_body(t, id) ==
    IF id \notin DOMAIN table
    THEN send_invalid_id(t, "move_to_next_video_frame", id) /\ Return(t) /\ UNCHANGED table
    ELSE LET r == AdvanceToNextVideoFrame(table[id])
         IN  /\ Put(id, r.p)
             /\ IF ~r.ok THEN send_error(t, "move_to_next_video_frame", id, 338) /\ Return(t)
                ELSE Call(t, "get_current_video_position", id) /\ UNCHANGED last

move_to_next_audio_frame_body(t, id) ==
    IF id \notin DOMAIN table
    THEN send_invalid_id(t, "move_to_next_audio_frame", id) /\ Return(t) /\ UNCHANGED table
    ELSE LET r == AdvanceToNextAudioFrame(table[id])
         IN  /\ Put(id, r.p)
             /\ IF ~r.ok THEN send_error(t, "move_to_next_audio_frame", id, 357) /\ Return(t)
                ELSE Call(t, "get_current_audio_position", id) /\ UNCHANGED last

poll_next_audio_frame_body_rewind(t, id) ==
    IF id \notin DOMAIN table
    THEN send_invalid_id(t, "poll_next_audio_frame", id) /\ Return(t) /\ UNCHANGED table
    ELSE LET r == PollNextAudioFrame(table[id])
         IN  IF ~r.ok
             THEN Put(id, r.p) /\ send_error(t, "poll_next_audio_frame", id, 380) /\ Return(t)
             ELSE IF ~r.more
             THEN /\ Put(id, [r.p EXCEPT !.audio.cursor = 0])
                  /\ send(t, "poll_next_audio_frame", id, Position(-1)) /\ Return(t)
             ELSE Put(id, r.p) /\ Call(t, "get_current_audio_position", id) /\ UNCHANGED last

poll_next_audio_frame_body(t, id) ==
    IF id \notin DOMAIN table
    THEN send_invalid_id(t, "poll_next_audio_frame", id) /\ Return(t) /\ UNCHANGED table
    ELSE LET r == PollNextAudioFrame(table[id])
         IN  /\ Put(id, r.p)
             /\ IF ~r.ok THEN send_error(t, "poll_next_audio_frame", id, 380) /\ Return(t)
                ELSE IF ~r.more THEN send(t, "poll_next_audio_frame", id, Position(-1)) /\ Return(t)
                ELSE Call(t, "get_current_audio_position", id) /\ UNCHANGED last

get_current_video_position_body(t, id) ==
    /\ UNCHANGED table
    /\ IF id \notin DOMAIN table THEN send_invalid_id(t, "get_current_video_position", id) /\ Return(t)
       ELSE IF ~table[id].video.open THEN send(t, "get_current_video_position", id, NoStream) /\ Return(t)
       ELSE IF table[id].video.cur.some
       THEN send(t, "get_current_video_position", id, Position(UnitPosition(table[id].file, table[id].video.cur))) /\ Return(t)
       ELSE Call(t, "move_to_next_video_frame", id) /\ UNCHANGED last

get_current_audio_position_body(t, id) ==
    /\ UNCHANGED table
    /\ IF id \notin DOMAIN table THEN send_invalid_id(t, "get_current_audio_position", id) /\ Return(t)
       ELSE IF ~table[id].audio.open THEN send(t, "get_current_audio_position", id, NoStream) /\ Return(t)
       ELSE IF table[id].audio.cur.some
       THEN send(t, "get_current_audio_position", id, Position(UnitPosition(table[id].file, table[id].audio.cur))) /\ Return(t)
       ELSE Call(t, "move_to_next_audio_frame", id) /\ UNCHANGED last

move_to_next_video_frame(t, id) ==
    /\ pc[t] = Idle
    /\ move_to_next_video_frame_body(t, id)
    /\ UNCHANGED <<next_id, returned, closed>>

move_to_next_audio_frame(t, id) ==
    /\ pc[t] = Idle
    /\ move_to_next_audio_frame_body(t, id)
    /\ UNCHANGED <<next_id, returned, closed>>

poll_next_audio_frame(t, id) ==
    /\ pc[t] = Idle
    /\ poll_next_audio_frame_body(t, id)
    /\ UNCHANGED <<next_id, returned, closed>>

get_current_video_position(t, id) ==
    /\ pc[t] = Idle
    /\ get_current_video_position_body(t, id)
    /\ UNCHANGED <<next_id, returned, closed>>

get_current_audio_position(t, id) ==
    /\ pc[t] = Idle
    /\ get_current_audio_position_body(t, id)
    /\ UNCHANGED <<next_id, returned, closed>>

\* The callee of a command that released the lock takes it again.
resume(t) ==
    /\ pc[t] # Idle
    /\ \/ pc[t].fn = "get_current_video_position"
          /\ get_current_video_position_body(t, pc[t].id)
       \/ pc[t].fn = "move_to_next_video_frame"
          /\ move_to_next_video_frame_body(t, pc[t].id)
       \/ pc[t].fn = "get_current_audio_position"
          /\ get_current_audio_position_body(t, pc[t].id)
       \/ pc[t].fn = "move_to_next_audio_frame"
          /\ move_to_next_audio_frame_body(t, pc[t].id)
    /\ UNCHANGED <<next_id, returned, closed>>

(***************************************************************************)
(* The two commands that return a binary Response.                         *)
(***************************************************************************)
send_current_video_frame(t, id) ==
    /\ pc[t] = Idle
    /\ IF id \notin DOMAIN table
       THEN Answer(t, "send_current_video_frame", id, InvalidId, "Err") /\ UNCHANGED table
       ELSE IF ~table[id].video.open
       THEN Answer(t, "send_current_video_frame", id, NoStream, "Err") /\ UNCHANGED table
       ELSE LET r == RenderCurrentVideoFrame(table[id])
            IN  /\ Put(id, r.p)
                /\ IF ~r.ok THEN Answer(t, "send_current_video_frame", id, RuntimeError(466), "Err")
                   ELSE LET video == r.p.video
                            current == video.cur
                            frame == current.scaled
                            pos == UnitPosition(r.p.file, current)
                            time == pos_timebase(r.p.file, video.index) * pos
                            data == to_byte_slice_rgba(ScaledPlane(r.p.file, current))
                            binary == I64ToLeBytes(pos) \o F64ToLeBytes(time)
                                        \o U64ToLeBytes(frame[1]) \o U64ToLeBytes(Len(data))
                                        \o data
                        IN  Answer(t, "send_current_video_frame", id,
                                   VideoResponse(pos, frame[1], Len(data),
                                                 current.stream, current.k, binary), "Ok")
    /\ UNCHANGED <<next_id, pc, returned, closed>>

send_current_audio_frame_fallback(t, id) ==
    /\ pc[t] = Idle
    /\ IF id \notin DOMAIN table
       THEN Answer(t, "send_current_audio_frame", id, InvalidId, "Err") /\ UNCHANGED table
       ELSE IF ~table[id].audio.open
       THEN Answer(t, "send_current_audio_frame", id, NoStream, "Err") /\ UNCHANGED table
       ELSE LET r == IF table[id].audio.cur.some THEN Ok(table[id])
                     ELSE AdvanceToNextAudioFrame(table[id])
            IN  /\ Put(id, r.p)
                /\ IF ~r.ok THEN Answer(t, "send_current_audio_frame", id, RuntimeError(549), "Err")
                   ELSE LET cached == r.p.audio.cur
                            pos == UnitPosition(r.p.file, cached)
                            data == UnitSamples(r.p.file, cached)
                            binary == I64ToLeBytes(pos) \o F64ToLeBytes(pos)
                                        \o U64ToLeBytes(Len(data)) \o to_byte_slice_f32(data)
                        IN  Answer(t, "send_current_audio_frame", id,
                                   AudioResponse(pos, Len(data), data,
                                                 cached.stream, cached.k, binary), "Ok")
    /\ UNCHANGED <<next_id, pc, returned, closed>>

send_current_audio_frame(t, id) ==
    /\ pc[t] = Idle
    /\ IF id \notin DOMAIN table THEN Answer(t, "send_current_audio_frame", id, InvalidId, "Err")
       ELSE IF ~table[id].audio.open THEN Answer(t, "send_current_audio_frame", id, NoStream, "Err")
       ELSE LET cxt == table[id].audio
            IN  IF ~cxt.cur.some THEN Answer(t, "send_current_audio_frame", id, RuntimeError(549), "Err")
                ELSE LET cached == cxt.cur
                         pos == UnitPosition(table[id].file, cached)
                         data == UnitSamples(table[id].file, cached)
                         time == pos_timebase(table[id].file, cxt.index) * pos
                         binary == I64ToLeBytes(pos) \o F64ToLeBytes(time)
                                     \o U64ToLeBytes(Len(data)) \o to_byte_slice_f32(data)
                     IN  Answer(t, "send_current_audio_frame", id,
                                AudioResponse(pos, Len(data), data,
                                              cached.stream, cached.k, binary), "Ok")
    /\ UNCHANGED <<next_id, table, pc, returned, closed>>

(***************************************************************************)
(* get_intensities.  Accumulate is the loop over one block's samples; an   *)
(* entry sum / step is kept as the pair <<sum, step>>.  IntensityLoop is   *)
(* the outer loop; it ends with the playback as the loop left it.          *)
(***************************************************************************)
RECURSIVE AccumulateLate(_, _, _)
AccumulateLate(data, step, acc) ==
    IF data = <<>> THEN acc
    ELSE LET sample == Head(data)
             sum == acc.sum + sample * sample
             counter == acc.counter + 1
         IN  IF counter = step + 1
             THEN AccumulateLate(Tail(data), step,
                      [vector |-> Append(acc.vector, <<sum, step>>), counter |-> 0, sum |-> 0])
             ELSE AccumulateLate(Tail(data), step,
                      [vector |-> acc.vector, counter |-> counter, sum |-> sum])


RECURSIVE Accumulate(_, _, _)
Accumulate(data, step, acc) ==
    IF data = <<>> THEN acc
    ELSE LET sample == Head(data)
             sum == acc.sum + sample * sample
             counter == acc.counter + 1
         IN  IF counter = step
             THEN Accumulate(Tail(data), step,
                      [vector |-> Append(acc.vector, <<sum, step>>), counter |-> 0, sum |-> 0])
             ELSE Accumulate(Tail(data), step,
                      [vector |-> acc.vector, counter |-> counter, sum |-> sum])

RECURSIVE IntensityLoopPartial(_, _, _, _, _)
IntensityLoopPartial(playback, until, step, acc, start_position) ==
    LET r == AdvanceToNextAudioFrame(playback)
    IN  IF ~r.ok
        THEN [ok |-> start_position >= 0, p |-> r.p, vector |-> acc.vector,
              start_position |-> start_position]
        ELSE LET current == r.p.audio.cur
                 acc1 == Accumulate(UnitSamples(r.p.file, current), step, acc)
                 start1 == IF start_position < 0 THEN UnitPosition(r.p.file, current)
                           ELSE start_position
             IN  IF UnitPosition(r.p.file, current) >= until
                 THEN [ok |-> TRUE, p |-> r.p, vector |-> acc1.vector,
                       start_position |-> start1]
                 ELSE IntensityLoopPartial(r.p, until, step, acc1, start1)

RECURSIVE IntensityLoop(_, _, _, _, _)
IntensityLoop(playback, until, step, acc, start_position) ==
    LET r == AdvanceToNextAudioFrame(playback)
    IN  IF ~r.ok
        THEN [ok |-> FALSE, p |-> r.p, vector |-> <<>>, start_position |-> start_position]
        ELSE LET current == r.p.audio.cur
                 acc1 == Accumulate(UnitSamples(r.p.file, current), step, acc)
                 start1 == IF start_position < 0 THEN UnitPosition(r.p.file, current)
                           ELSE start_position
             IN  IF UnitPosition(r.p.file, current) >= until
                 THEN [ok |-> TRUE, p |-> r.p, vector |-> acc1.vector,
                       start_position |-> start1]
                 ELSE IntensityLoop(r.p, until, step, acc1, start1)

get_intensities(t, id, until, step) ==
    /\ pc[t] = Idle
    /\ IF id \notin DOMAIN table THEN send_invalid_id(t, "get_intensities", id) /\ UNCHANGED table
       ELSE IF ~table[id].audio.open THEN send(t, "get_intensities", id, NoStream) /\ UNCHANGED table
       ELSE LET r == IntensityLoop(table[id], until, step,
                                   [vector |-> <<>>, counter |-> 0, sum |-> 0], -1)
            IN  /\ Put(id, r.p)
                /\ IF ~r.ok THEN send_error(t, "get_intensities", id, 590)
                   ELSE send(t, "get_intensities", id, IntensityList(r.start_position,
                                 r.start_position + Len(r.vector) * step, r.vector))
    /\ UNCHANGED <<next_id, pc, returned, closed>>

(***************************************************************************)
(* The specifications.  Command is any command on a session id, with its   *)
(* arguments drawn from the given sets.                                    *)
(***************************************************************************)
SessionCommand(t, id) ==
    \/ media_status(t, id)
    \/ audio_status(t, id)
    \/ video_status(t, id)
    \/ close_media(t, id)

VideoCommand(t, id, streams, positions) ==
    \/ \E w \in Dims, h \in Heights : video_set_size(t, id, w, h)
    \/ \E i \in streams : open_video(t, id, i)
    \/ \E position \in positions : seek_video(t, id, position)
    \/ move_to_next_video_frame(t, id)
    \/ get_current_video_position(t, id)
    \/ send_current_video_frame(t, id)

AudioCommand(t, id, streams, positions, steps) ==
    \/ \E i \in streams : open_audio(t, id, i)
    \/ \E position \in positions : seek_audio(t, id, position)
    \/ move_to_next_audio_frame(t, id)
    \/ poll_next_audio_frame(t, id)
    \/ get_current_audio_position(t, id)
    \/ send_current_audio_frame(t, id)
    \/ \E until \in positions, step \in steps : get_intensities(t, id, until, step)

Command(t, id, streams, positions, steps) ==
    \/ SessionCommand(t, id)
    \/ VideoCommand(t, id, streams, positions)
    \/ AudioCommand(t, id, streams, positions, steps)

ToneCommand(t, id) == Command(t, id, -1..Len(Tone), -1..MaxPos, Steps)
ClipCommand(t, id) == Command(t, id, -1..Len(Clip), -1..MaxClipPos, Steps)

\* One caller at a time: every command on every id, sessions of the file "tone".
Next ==
    \/ \E path \in {"missing", "tone"} : open_media(1, path)
    \/ resume(1)
    \/ \E id \in Ids : ToneCommand(1, id)

Spec == Init /\ [][Next]_vars

\* One caller works on one session of the file "clip".
NextClip ==
    \/ next_id = 0 /\ \E path \in {"missing", "clip"} : open_media(1, path)
    \/ resume(1)
    \/ ClipCommand(1, 0)

SpecClip == Init /\ [][NextClip]_vars

\* The same, with a caller that has released the lock inside a command
\* getting it again: the thread goes on to the call that follows.
SpecClipFair == SpecClip /\ \A t \in Callers : WF_vars(resume(t))

\* Several callers at once on one session: the commands that take the lock
\* more than once, and the commands that can come between.
Racing(t, id) ==
    \/ close_media(t, id)
    \/ \E i \in {-1} : open_video(t, id, i)
    \/ \E i \in {-1} : open_audio(t, id, i)
    \/ \E position \in 0..MaxPos : seek_audio(t, id, position)
    \/ \E position \in 0..MaxPos : seek_video(t, id, position)
    \/ move_to_next_video_frame(t, id)
    \/ move_to_next_audio_frame(t, id)
    \/ poll_next_audio_frame(t, id)
    \/ get_current_video_position(t, id)
    \/ get_current_audio_position(t, id)

NextRace ==
    \E t \in Callers :
        \/ next_id = 0 /\ open_media(t, "tone")
        \/ resume(t)
        \/ Racing(t, 0)

SpecRace == Init /\ [][NextRace]_vars

(***************************************************************************)
(* How a step is read off the state: a step in which a command body ends   *)
(* by calling another command changes pc to a pending call (CallStep);     *)
(* every other step is the answer of the function named in last'.          *)
(***************************************************************************)
CallStep == \E t \in Callers : pc'[t] # pc[t] /\ pc'[t] # Idle
AnswerStep == ~CallStep
Caller == CHOOSE t \in Callers : pc'[t] # pc[t] /\ pc'[t] # Idle
StepId == IF CallStep THEN pc'[Caller].id ELSE last'.id

AudioFns ==
    {"open_audio", "seek_audio", "move_to_next_audio_frame", "poll_next_audio_frame",
     "get_current_audio_position", "send_current_audio_frame", "get_intensities"}
VideoFns ==
    {"open_video", "video_set_size", "seek_video", "move_to_next_video_frame",
     "get_current_video_position", "send_current_video_frame"}
StepFn == IF CallStep THEN pc'[Caller].fn ELSE last'.fn

(***************************************************************************)
(* Properties of the registry.                                             *)
(***************************************************************************)

\* C1: a command given an id that open_media never returned answers
\* InvalidId (not NoStream, not RuntimeError), calls no further command,
\* and leaves the registry as it was.
C1_UnknownIdIsInvalidId ==
    [][/\ CallStep => StepId \in returned
       /\ (AnswerStep /\ last'.fn # "open_media" /\ last'.id \notin returned)
              => /\ last'.ev = InvalidId
                 /\ table' = table
                 /\ next_id' = next_id]_vars

\* InvalidId was answered while a session is open and none was ever closed:
\* the id given was never returned.
C1_Witness ==
    /\ last.ev = InvalidId
    /\ closed = {}
    /\ DOMAIN table # {}
    /\ last.id \notin returned

\* C2: once close_media(id) has answered Done, every later command given
\* that id answers InvalidId, whatever was opened or closed in between.
C2_ClosedIdStaysInvalid ==
    [][/\ CallStep => StepId \notin closed
       /\ (AnswerStep /\ last'.fn # "open_media" /\ last'.id \in closed)
              => last'.ev = InvalidId]_vars

\* A command on a closed id answered InvalidId after a further open_media.
C2_Witness ==
    /\ last.ev = InvalidId
    /\ last.id \in closed
    /\ \E j \in DOMAIN table : j > last.id

\* C3: no command but close_media removes an id, and close_media removes
\* the id it is given exactly when it answers Done; open_media adds exactly
\* the id it reports in Opened and nothing when it fails; every other
\* command, whatever it answers, keeps the set of ids.
C3_OnlyCloseRemoves ==
    [][/\ CallStep => DOMAIN table' = DOMAIN table
       /\ (AnswerStep /\ last'.fn \notin {"open_media", "close_media"})
              => DOMAIN table' = DOMAIN table
       /\ (AnswerStep /\ last'.fn = "open_media")
              => IF last'.ev.tag = "Opened"
                 THEN /\ last'.ev.id \notin DOMAIN table
                      /\ DOMAIN table' = DOMAIN table \cup {last'.ev.id}
                 ELSE /\ last'.ev.tag = "RuntimeError"
                      /\ DOMAIN table' = DOMAIN table
       /\ (AnswerStep /\ last'.fn = "close_media")
              => IF last'.ev = Done
                 THEN /\ last'.id \in DOMAIN table
                      /\ DOMAIN table' = DOMAIN table \ {last'.id}
                 ELSE DOMAIN table' = DOMAIN table]_vars

\* A command failed with RuntimeError and its session is still in the registry.
C3_Witness ==
    /\ last.ev.tag = "RuntimeError"
    /\ last.id \in DOMAIN table

\* C4: a command in flight runs to its final event with no step of another
\* caller in between: while a caller is between two lock acquisitions, the
\* next step is its own.
C4_CommandsAreAtomic ==
    [][\A t \in Callers : pc[t] # Idle => pc'[t] # pc[t]]_vars

\* C8: an audio function changes no video context, a video function no
\* audio context, and no function changes a session other than its own.
C8_ContextsIsolated ==
    [][\A j \in DOMAIN table \cap DOMAIN table' :
          /\ StepFn \in AudioFns => table'[j].video = table[j].video
          /\ StepFn \in VideoFns => table'[j].audio = table[j].audio
          /\ j # StepId => table'[j] = table[j]]_vars

\* get_intensities succeeded on a session whose video context holds a frame,
\* with another session in the registry.
C8_Witness ==
    /\ last.fn = "get_intensities"
    /\ last.ev.tag = "IntensityList"
    /\ last.id \in DOMAIN table
    /\ table[last.id].video.cur.some
    /\ \E j \in DOMAIN table : j # last.id /\ table[j].video.open

(***************************************************************************)
(* Properties of get_intensities.  Consumed is the number of samples in   *)
(* the blocks a call decoded, read off the stream between the cursor      *)
(* before and after the call.                                              *)
(***************************************************************************)
RECURSIVE Consumed(_, _, _, _)
Consumed(file, i, from, to) ==
    IF to <= from THEN 0
    ELSE Len(UnitsOf(file, i)[to].samples) + Consumed(file, i, from, to - 1)

IntensityAnswer ==
    /\ AnswerStep
    /\ last'.fn = "get_intensities"
    /\ last'.ev.tag = "IntensityList"

ConsumedByCall ==
    Consumed(table[last'.id].file, table[last'.id].audio.index,
             table[last'.id].audio.cursor, table'[last'.id].audio.cursor)

\* C5 as amended: with step >= 1 a successful call emits floor(consumed / step)
\* entries and end - start = entries * step, a partial last window being
\* dropped; with step <= 0 it emits no entry and end = start.
C5_WindowCount ==
    [][IntensityAnswer =>
          \A until \in -1..MaxClipPos, step \in Steps :
              get_intensities(last'.caller, last'.id, until, step) =>
                  IF step >= 1
                  THEN /\ Len(last'.ev.data) = ConsumedByCall \div step
                       /\ last'.ev.end - last'.ev.start = Len(last'.ev.data) * step
                  ELSE /\ last'.ev.data = <<>>
                       /\ last'.ev.end = last'.ev.start]_vars

\* Two windows of step 2 were emitted from the 5 samples of the first two
\* blocks of stream 3: the fifth sample, a partial window, was dropped.
C5_Witness ==
    /\ last.fn = "get_intensities"
    /\ last.ev.tag = "IntensityList"
    /\ Len(last.ev.data) = 2
    /\ last.ev.data[1][2] = 2
    /\ last.id \in DOMAIN table
    /\ table[last.id].audio.index = 3
    /\ table[last.id].audio.cursor = 2

\* C5 as claimed: every successful call, whatever its step, emits
\* floor(consumed / step) entries: entries * step <= consumed < (entries + 1) * step.
C5_WindowCountAnyStep ==
    [][IntensityAnswer =>
          \A until \in -1..MaxClipPos, step \in Steps :
              get_intensities(last'.caller, last'.id, until, step) =>
                  /\ Len(last'.ev.data) * step <= ConsumedByCall
                  /\ ConsumedByCall < (Len(last'.ev.data) + 1) * step
                  /\ last'.ev.end - last'.ev.start = Len(last'.ev.data) * step]_vars

\* The audio context of session id is freshly opened on a stream whose first
\* block is at position 0.
FreshAtZero(id) ==
    /\ id \in DOMAIN table
    /\ table[id].audio.open
    /\ table[id].audio.cursor = 0
    /\ ~table[id].audio.cur.some
    /\ UnitsOf(table[id].file, table[id].audio.index) # <<>>
    /\ UnitsOf(table[id].file, table[id].audio.index)[1].position = 0

StreamSamples(id) ==
    Consumed(table[id].file, table[id].audio.index, 0,
             Len(UnitsOf(table[id].file, table[id].audio.index)))

\* C6: on a freshly opened audio stream starting at 0 and at least until
\* samples long, get_intensities(until, step) with until a positive multiple
\* of step answers exactly until / step entries, start = 0 and end = until.
C6_ExactWindows ==
    [][(AnswerStep /\ last'.fn = "get_intensities") =>
          \A until \in 1..MaxClipPos, step \in Steps \ {0} :
              (/\ get_intensities(last'.caller, last'.id, until, step)
               /\ FreshAtZero(last'.id)
               /\ until % step = 0
               /\ StreamSamples(last'.id) >= until)
                  => /\ last'.ev.tag = "IntensityList"
                     /\ Len(last'.ev.data) = until \div step
                     /\ last'.ev.start = 0
                     /\ last'.ev.end = until]_vars

\* C7: when until is at or before the position of the first block the call
\* decodes, get_intensities answers an IntensityList with no entry.
C7_EmptyWhenBehind ==
    [][(AnswerStep /\ last'.fn = "get_intensities") =>
          \A until \in -1..MaxClipPos, step \in Steps :
              (/\ get_intensities(last'.caller, last'.id, until, step)
               /\ last'.id \in DOMAIN table
               /\ table[last'.id].audio.open
               /\ table[last'.id].audio.cursor
                      < Len(UnitsOf(table[last'.id].file, table[last'.id].audio.index))
               /\ until <= UnitsOf(table[last'.id].file, table[last'.id].audio.index)
                               [table[last'.id].audio.cursor + 1].position)
                  => /\ last'.ev.tag = "IntensityList"
                     /\ last'.ev.data = <<>>]_vars

(***************************************************************************)
(* Properties of the stream contexts.                                      *)
(***************************************************************************)
FromOwnStream(c) == c.cur.some => (c.open /\ c.cur.stream = c.index)

\* C9: a successful open_video (open_audio) leaves the new context with an
\* empty cache slot, a cached unit always comes from the stream its context
\* is open on, and what get_current_*_position and send_current_*_frame
\* report is a unit of that stream.
C9_ReopenReplaces ==
    [][/\ \A id \in DOMAIN table' :
            FromOwnStream(table'[id].video) /\ FromOwnStream(table'[id].audio)
       /\ (AnswerStep /\ last'.fn = "open_video" /\ last'.ev = Done)
              => ~table'[last'.id].video.cur.some
       /\ (AnswerStep /\ last'.fn = "open_audio" /\ last'.ev = Done)
              => ~table'[last'.id].audio.cur.some
       /\ (AnswerStep /\ last'.ev.tag = "VideoResponse")
              => last'.ev.stream = table'[last'.id].video.index
       /\ (AnswerStep /\ last'.ev.tag = "AudioResponse")
              => last'.ev.stream = table'[last'.id].audio.index
       /\ (AnswerStep /\ last'.fn = "get_current_video_position"
                      /\ last'.ev.tag = "Position")
              => \E k \in 1..Len(UnitsOf(table'[last'.id].file, table'[last'.id].video.index)) :
                    /\ table'[last'.id].video.cur.stream = table'[last'.id].video.index
                    /\ table'[last'.id].video.cur.k = k
                    /\ last'.ev.value =
                           UnitsOf(table'[last'.id].file, table'[last'.id].video.index)[k].position
       ]_vars

\* A frame was reported from a video context that replaced a context on
\* another stream.
C9_Witness ==
    /\ last.fn \in {"get_current_video_position", "send_current_video_frame"}
    /\ last.ev.tag \in {"Position", "VideoResponse"}
    /\ last.id \in DOMAIN table
    /\ table[last.id].video.replaced
    /\ table[last.id].video.cur.some

\* The frame a precise seek to position must end on: the first frame at or
\* after the target, counting from the last keyframe at or before it
\* (0: there is none before the end of the stream).
SeekTarget(file, i, position) ==
    LET units == UnitsOf(file, i)
        keys == {k \in 1..Len(units) : units[k].key}
        before == {k \in keys : units[k].position <= position}
        from == IF before = {} THEN Min(keys) ELSE Max(before)
        hits == {k \in from..Len(units) : units[k].position >= position}
    IN  IF keys = {} \/ hits = {} THEN 0 ELSE Min(hits)

\* C10: seek_video(position) on an open video stream answers Done with the
\* first frame at or after position (in decode order from the keyframe at or
\* before it) in the cache slot, and answers RuntimeError, not Done, when the
\* stream ends before such a frame.
C10_PreciseSeek ==
    [][(/\ AnswerStep
        /\ last'.fn = "seek_video"
        /\ last'.id \in DOMAIN table
        /\ table[last'.id].video.open)
          => \A position \in -1..MaxClipPos :
                seek_video(last'.caller, last'.id, position) =>
                    LET i == table[last'.id].video.index
                        k == SeekTarget(table[last'.id].file, i, position)
                    IN  IF k = 0
                        THEN last'.ev.tag = "RuntimeError"
                        ELSE /\ last'.ev = Done
                             /\ table'[last'.id].video.cur = Unit(i, k)]_vars

\* A seek answered Done on frame 2 of stream 0, which is no keyframe: the
\* keyframe before it was decoded and discarded.
C10_Witness ==
    /\ last.fn = "seek_video"
    /\ last.ev = Done
    /\ last.id \in DOMAIN table
    /\ table[last.id].video.index = 0
    /\ table[last.id].video.cur = Unit(0, 2)


\* C11: when seek_video(position) has answered Done, the same seek performed
\* again on the playback it left succeeds and leaves a cached frame with the
\* same position.
C11_SeekIdempotent ==
    [][(/\ AnswerStep
        /\ last'.fn = "seek_video"
        /\ last'.ev = Done)
          => \A position \in -1..MaxClipPos :
                seek_video(last'.caller, last'.id, position) =>
                    LET once == table'[last'.id]
                        twice == SeekVideoPrecise(once, position)
                    IN  /\ twice.ok
                        /\ twice.p.video.cur.some
                        /\ UnitPosition(twice.p.file, twice.p.video.cur)
                               = UnitPosition(once.file, once.video.cur)]_vars

\* A seek on stream 1 answered Done on its second frame (position 5), which
\* is no keyframe: a second seek starts again from the keyframe at 0.
C11_Witness ==
    /\ last.fn = "seek_video"
    /\ last.ev = Done
    /\ last.id \in DOMAIN table
    /\ table[last.id].video.index = 1
    /\ table[last.id].video.cur = Unit(1, 2)


(***************************************************************************)
(* End of stream.  AtEnd(p) holds when the audio context has handed every *)
(* block of its stream to the decoder.                                     *)
(***************************************************************************)
AtEnd(p) == p.audio.open /\ p.audio.cursor = Len(UnitsOf(p.file, p.audio.index))

\* C12: poll_next_audio_frame answers Position(-1) only at the end of the
\* stream; once the stream has ended, no command but seek_audio, open_audio
\* and close_media changes the audio context, so no frame comes back; and
\* every poll_next_audio_frame at the end answers Position(-1) again, not
\* RuntimeError, and calls no further command.
C12_EndOfStreamStable ==
    [][/\ (AnswerStep /\ last'.fn = "poll_next_audio_frame" /\ last'.ev = Position(-1))
              => /\ AtEnd(table'[last'.id])
                 /\ table' = table
       /\ \A id \in DOMAIN table \cap DOMAIN table' :
              (AtEnd(table[id]) /\ StepFn \notin {"seek_audio", "open_audio"})
                  => table'[id].audio = table[id].audio
       /\ (/\ AnswerStep
           /\ last'.fn \in {"poll_next_audio_frame", "get_current_audio_position"}
           /\ last'.id \in DOMAIN table
           /\ AtEnd(table[last'.id])
           /\ pc[last'.caller] = Idle
           /\ poll_next_audio_frame(last'.caller, last'.id))
              => last'.ev = Position(-1)
       /\ \A t \in Callers, id \in DOMAIN table :
              (AtEnd(table[id]) /\ pc[t] = Idle /\ pc'[t] # Idle /\ pc'[t].id = id)
                  => ~poll_next_audio_frame(t, id)]_vars

\* poll_next_audio_frame answered the end marker on stream 3 with its last
\* block still in the cache slot.
C12_Witness ==
    /\ last.fn = "poll_next_audio_frame"
    /\ last.ev = Position(-1)
    /\ last.id \in DOMAIN table
    /\ table[last.id].audio.cur = Unit(3, 3)
    /\ AtEnd(table[last.id])


(***************************************************************************)
(* Properties of the frame transfer.                                       *)
(***************************************************************************)

\* C13: send_current_video_frame on an open video context with an empty
\* cache slot answers RuntimeError, returns Err and changes nothing; so does
\* send_current_audio_frame on an open audio context with an empty slot.
C13_RenderNeedsFrame ==
    [][/\ (/\ AnswerStep
           /\ last'.fn = "send_current_video_frame"
           /\ last'.id \in DOMAIN table
           /\ table[last'.id].video.open
           /\ ~table[last'.id].video.cur.some)
              => /\ last'.ev = RuntimeError(466)
                 /\ last'.ret = "Err"
                 /\ table' = table
       /\ (/\ AnswerStep
           /\ last'.fn = "send_current_audio_frame"
           /\ last'.id \in DOMAIN table
           /\ table[last'.id].audio.open
           /\ ~table[last'.id].audio.cur.some)
              => /\ last'.ev = RuntimeError(549)
                 /\ last'.ret = "Err"
                 /\ table' = table]_vars

\* send_current_video_frame failed on a freshly opened video context, whose
\* stream has frames to decode.
C13_Witness ==
    /\ last.fn = "send_current_video_frame"
    /\ last.ev = RuntimeError(466)
    /\ last.ret = "Err"
    /\ last.id \in DOMAIN table
    /\ table[last.id].video.open
    /\ table[last.id].video.cursor = 0
    /\ ~table[last.id].video.cur.some


RECURSIVE FromLe(_)
FromLe(b) == IF b = <<>> THEN 0 ELSE Head(b) + 256 * FromLe(Tail(b))

DecodeI64(b) ==
    IF b[8] >= 128 THEN -FromLe([i \in 1..8 |-> 255 - b[i]]) - 1 ELSE FromLe(b)

\* The value of a single-precision bit pattern that holds a non-negative integer.
DecodeF32(b) ==
    LET bits == FromLe(b)
    IN  IF bits = 0 THEN 0
        ELSE (((2^23) + (bits % (2^23))) * 2^((bits \div (2^23)) - 127)) \div (2^23)

DecodeSamples(b) == [j \in 1..(Len(b) \div 4) |-> DecodeF32(SubSeq(b, 4 * j - 3, 4 * j))]
DecodePixels(b) == [j \in 1..(Len(b) \div 4) |-> SubSeq(b, 4 * j - 3, 4 * j)]

\* C15: the bytes of a video response decode, as little-endian [int64
\* position, float64 time, uint64 stride, uint64 length, payload], to the
\* cached frame's position, the output width and the pixels of its
\* rendering, and are 32 + length long; the bytes of an audio response
\* decode, as [int64 position, float64 time, uint64 length, payload], to the
\* cached block's position and samples, and are 24 + 4 * length long.  The
\* audio command changes no state; the video command changes nothing but
\* the rendering that render_current_video_frame stores with the frame.
C15_TransferRoundTrip ==
    [][/\ (AnswerStep /\ last'.ev.tag = "VideoResponse")
              => LET b == last'.ev.binary
                     p == table'[last'.id]
                     length == FromLe(SubSeq(b, 25, 32))
                 IN  /\ DecodeI64(SubSeq(b, 1, 8)) = UnitPosition(p.file, p.video.cur)
                     /\ FromLe(SubSeq(b, 17, 24)) = p.video.out[1]
                     /\ Len(b) = 32 + length
                     /\ length = p.video.out[1] * p.video.out[2] * 4
                     /\ DecodePixels(SubSeq(b, 33, Len(b))) = ScaledPlane(p.file, p.video.cur)
                     /\ table = [table' EXCEPT ![last'.id].video.cur.scaled =
                                                   table[last'.id].video.cur.scaled]
       /\ (AnswerStep /\ last'.ev.tag = "AudioResponse")
              => LET b == last'.ev.binary
                     p == table[last'.id]
                     length == FromLe(SubSeq(b, 17, 24))
                 IN  /\ last'.fn = "send_current_audio_frame"
                     /\ DecodeI64(SubSeq(b, 1, 8)) = UnitPosition(p.file, p.audio.cur)
                     /\ Len(b) = 24 + 4 * length
                     /\ DecodeSamples(SubSeq(b, 25, Len(b))) = UnitSamples(p.file, p.audio.cur)
                     /\ table' = table]_vars

\* The first block of stream 3, at the negative position -3 with 3 samples,
\* was sent: 36 bytes, the first eight 253, 255, ..., 255.
C15_Witness ==
    /\ last.ev.tag = "AudioResponse"
    /\ Len(last.ev.binary) = 36
    /\ SubSeq(last.ev.binary, 1, 8) = <<253, 255, 255, 255, 255, 255, 255, 255>>
    /\ last.id \in DOMAIN table
    /\ table[last.id].audio.cur = Unit(3, 1)


(***************************************************************************)
(* Termination.                                                            *)
(***************************************************************************)
PositionFns ==
    {"get_current_video_position", "get_current_audio_position",
     "move_to_next_video_frame", "move_to_next_audio_frame"}

BlocksReaching(p, until) ==
    {k \in (p.audio.cursor + 1)..Len(UnitsOf(p.file, p.audio.index)) :
        UnitsOf(p.file, p.audio.index)[k].position >= until}

C18_StartIsFirstBlock ==
    [][IntensityAnswer =>
          LET p == table[last'.id]
              q == table'[last'.id]
              units == UnitsOf(p.file, p.audio.index)
          IN  /\ last'.ev.start = units[p.audio.cursor + 1].position
              /\ q.audio.cur = Unit(p.audio.index, q.audio.cursor)
              /\ \A until \in -1..MaxClipPos, step \in Steps :
                    get_intensities(last'.caller, last'.id, until, step)
                        => UnitPosition(q.file, q.audio.cur) >= until]_vars


(***************************************************************************)
(* Properties of the session ids and of media_status.                      *)
(***************************************************************************)

\* C19: every id in the table is below next_id; the ids returned so far are
\* exactly 0 .. next_id - 1; a successful open_media returns next_id, which
\* was never returned before, and moves next_id up by one; a failed
\* open_media and every other command leave next_id alone.
C19_IdsUnique ==
    /\ [](/\ \A k \in DOMAIN table : k >= 0 /\ k < next_id
          /\ returned = 0..(next_id - 1)
          /\ closed \subseteq returned)
    /\ [][/\ (AnswerStep /\ last'.fn = "open_media" /\ last'.ev.tag = "Opened")
                 => /\ last'.ev.id = next_id
                    /\ last'.ev.id \notin returned
                    /\ next_id' = next_id + 1
                    /\ last'.ev.id \in DOMAIN table'
          /\ (AnswerStep /\ last'.fn = "open_media" /\ last'.ev.tag # "Opened")
                 => /\ last'.ev = RuntimeError(225)
                    /\ next_id' = next_id
                    /\ table' = table
          /\ (CallStep \/ last'.fn # "open_media") => next_id' = next_id]_vars

\* open_media returned 1 after session 0 had been closed: the free id 0 was
\* not handed out again.
C19_Witness ==
    /\ last.fn = "open_media"
    /\ last.ev = Opened(1)
    /\ 0 \in closed
    /\ DOMAIN table = {1}


\* C20: media_status on an id in the table answers MediaStatus with
\* audio_index the index of the open audio stream, or -1 when none is open,
\* and video_index -1 whatever the video context, and changes nothing.
C20_MediaStatus ==
    [][(AnswerStep /\ last'.fn = "media_status" /\ last'.id \in DOMAIN table)
          => /\ last'.ev.tag = "MediaStatus"
             /\ last'.ev.audio_index
                    = (IF table[last'.id].audio.open THEN table[last'.id].audio.index ELSE -1)
             /\ last'.ev.video_index = -1
             /\ last'.ev.streams = Len(Streams(table[last'.id].file))
             /\ table' = table
             /\ next_id' = next_id
             /\ pc' = pc]_vars

\* media_status reported audio stream 3 and video_index -1 with the video
\* context open on stream 1.
C20_Witness ==
    /\ last.fn = "media_status"
    /\ last.ev.tag = "MediaStatus"
    /\ last.ev.audio_index = 3
    /\ last.ev.video_index = -1
    /\ last.id \in DOMAIN table
    /\ table[last.id].video.open
    /\ table[last.id].video.index = 1

====
